---- MODULE Spec2Model ----
(***************************************************************************)
(* Model of scripts/post_build.py, the post-build hook of T-Deck-Pro OS.   *)
(* One invocation of main() walks six steps; the file system (build        *)
(* directory, generated header, build_artifacts/, ota_packages/) and the   *)
(* console are the state.  Every file-system call that can raise is a      *)
(* nondeterministic choice between success and an exception; an exception  *)
(* that no try/except of the script catches leaves main ("crashed").       *)
(***************************************************************************)
EXTENDS Integers, Sequences, FiniteSets, TLC

VARIABLES env, buildDir, header, clock, dirs, files, console, pc, run, header0

vars == <<env, buildDir, header, clock, dirs, files, console, pc, run, header0>>

(* ------------------------------ bounds --------------------------------- *)
MaxRuns == 2
MaxClock == 1

(* ----------------------------- constants ------------------------------- *)
Missing == "<missing>"
\* env after a failed Import("env")
None == [avail |-> FALSE, PIOENV |-> Missing]
Absent == "<absent>"
\* st_size of a file that does not exist
NoFile == -1

max_app_size == 6 * 1024 * 1024
MiB == 1024 * 1024

EnvNames == {"t-deck-release", "rotary"}
Envs == {None} \cup {[avail |-> TRUE, PIOENV |-> n] : n \in EnvNames \cup {Missing}}

Sizes == {max_app_size - 131072, max_app_size, max_app_size + 1}
BuildDirs == [bin : Sizes \cup {NoFile}, elf : BOOLEAN, map : BOOLEAN]

Headers == { "#define BUILD_DATE \"today\"\n",
             "// BUILD_VERSION follows\n#define BUILD_VERSION \"3.0\" // \"x\"\n",
             "#define BUILD_VERSION \"4.0-dev" }

(* --------------------------- string helpers ---------------------------- *)
\* Python's `sub in s`
Contains(sub, s) ==
    \E i \in 1..(Len(s) - Len(sub) + 1) : SubSeq(s, i, i + Len(sub) - 1) = sub

\* positions of the separator character sep in s
Positions(sep, s) == {i \in 1..Len(s) : SubSeq(s, i, i) = sep}

Min(S) == CHOOSE m \in S : \A k \in S : m <= k

\* Python's s.split(sep), sep a single character
RECURSIVE Split(_, _)
Split(s, sep) ==
    LET at == Positions(sep, s)
    IN  IF at = {} THEN <<s>>
        ELSE LET p == Min(at)
             IN  <<SubSeq(s, 1, p - 1)>> \o Split(SubSeq(s, p + 1, Len(s)), sep)

Pad2(n) == IF n < 10 THEN "0" \o ToString(n) ELSE ToString(n)

\* datetime.now().strftime("%Y%m%d_%H%M%S"), the clock counting the seconds
\* of one fixed day
Timestamp(c) ==
    "20250101_" \o Pad2(c \div 3600) \o Pad2((c \div 60) % 60) \o Pad2(c % 60)

\* Python's format(x, ".2f") for x = num / den, den > 0, num >= 0, in
\* hundredths: correctly rounded, ties to even
Round2f(num, den) ==
    LET q == (num * 100) \div den
        r == (num * 100) % den
    IN  IF 2 * r > den THEN q + 1
        ELSE IF 2 * r < den THEN q
        ELSE IF q % 2 = 0 THEN q ELSE q + 1

(* ------------------------------ env ------------------------------------ *)
EnvUnavailable_never == FALSE

\* `if not env:` at the head of the three environment-dependent steps
EnvUnavailable == ~env.avail

\* env.get('PIOENV', 'unknown')
EnvName == IF env.PIOENV = Missing THEN "unknown" ELSE env.PIOENV

(* --------------------------- file system ------------------------------- *)
Say(out, tag) == Append(out, [tag |-> tag, val |-> 0])
SayVal(out, tag, v) == Append(out, [tag |-> tag, val |-> v])

WriteFile(fs, path, content) ==
    [p \in DOMAIN fs \cup {path} |-> IF p = path THEN content ELSE fs[p]]

\* content of a copy made by shutil.copy2 of a build-directory file; fresh
\* marks what the current invocation wrote
Copy(src, size) ==
    [kind |-> "copy", src |-> src, size |-> size, fresh |-> TRUE]

\* one shutil.copy2 inside a step: st is the step's running state
CopyStep(st, exists, path, content, ok, tag) ==
    IF st.raised \/ ~exists THEN st
    ELSE IF ok THEN [st EXCEPT !.files = WriteFile(st.files, path, content),
                               !.out = Say(st.out, tag)]
    ELSE [st EXCEPT !.raised = TRUE]

(* ------------------------------ Init ----------------------------------- *)
Init ==
    /\ env \in Envs
    /\ buildDir \in BuildDirs
    /\ header \in Headers \cup {Absent}
    /\ header0 = header
    /\ clock = 0
    /\ dirs = {}
    /\ files = << >>
    /\ console = << >>
    /\ pc = "summary"
    /\ run = 1

(* ------------------------------ steps ---------------------------------- *)
print_build_summary ==
    /\ pc = "summary"
    /\ console' = IF env.avail THEN Say(Say(console, "summary"), "summary_env")
                  ELSE Say(console, "summary")
    /\ pc' = "size"
    /\ UNCHANGED <<env, buildDir, header, clock, dirs, files, run, header0>>

Exceeds_ge(size) == size >= max_app_size

\* `size > max_app_size`
Exceeds(size) == size > max_app_size

analyze_firmware_size ==
    /\ pc = "size"
    /\ LET o1 == Say(console, "Analyzing")
       IN  console' =
             IF EnvUnavailable THEN Say(o1, "size_skip")
             ELSE IF buildDir.bin # NoFile
             THEN LET size == buildDir.bin
                      o2 == SayVal(o1, "size", size)
                  IN  IF Exceeds(size) THEN Say(o2, "size_warn")
                      ELSE LET remaining == max_app_size - size
                           IN  SayVal(o2, "remaining", Round2f(remaining, MiB))
             ELSE Say(o1, "bin_missing")
    /\ pc' = "artifacts"
    /\ UNCHANGED <<env, buildDir, header, clock, dirs, files, run, header0>>

ArtifactBin_noTs(env_name, timestamp) ==
    "build_artifacts/t-deck-pro-os_" \o env_name \o ".bin"

ArtifactBin(env_name, timestamp) ==
    "build_artifacts/t-deck-pro-os_" \o env_name \o "_" \o timestamp \o ".bin"
ArtifactElf(env_name) == "build_artifacts/t-deck-pro-os_" \o env_name \o ".elf"
ArtifactMap(env_name) == "build_artifacts/t-deck-pro-os_" \o env_name \o ".map"

generate_build_artifacts ==
    /\ pc = "artifacts"
    /\ LET o1 == Say(console, "Generating")
       IN  IF EnvUnavailable
           THEN /\ console' = Say(o1, "art_skip")
                /\ pc' = "ota"
                /\ UNCHANGED <<dirs, files>>
           ELSE \E okMk, okBin, okElf, okMap \in BOOLEAN :
                  /\ okMk \/ "build_artifacts" \notin dirs
                  /\ LET env_name == EnvName
                         timestamp == Timestamp(clock)
                         s0 == [files |-> files, out |-> o1, raised |-> ~okMk]
                         s1 == CopyStep(s0, buildDir.bin # NoFile,
                                        ArtifactBin(env_name, timestamp),
                                        Copy("firmware.bin", buildDir.bin),
                                        okBin, "art_bin")
                         s2 == CopyStep(s1, buildDir.elf, ArtifactElf(env_name),
                                        Copy("firmware.elf", 0), okElf, "art_elf")
                         s3 == CopyStep(s2, buildDir.map, ArtifactMap(env_name),
                                        Copy("firmware.map", 0), okMap, "art_map")
                     IN  /\ dirs' = IF okMk THEN dirs \cup {"build_artifacts"}
                                    ELSE dirs
                         /\ files' = s3.files
                         /\ console' = s3.out
                         /\ pc' = IF s3.raised THEN "crashed" ELSE "ota"
    /\ UNCHANGED <<env, buildDir, header, clock, run, header0>>

DefaultVersion == "1.0.0"

Extract_before(line) == Split(line, "\"")[1]

\* line.split('"')[1]
Extract(line) == Split(line, "\"")[2]

\* the scan of lines 140-143: the first line holding both the marker and a
\* double quote decides
RECURSIVE ScanLines(_)
ScanLines(lines) ==
    IF lines = << >> THEN DefaultVersion
    ELSE IF Contains("BUILD_VERSION", Head(lines)) /\ Contains("\"", Head(lines))
         THEN Extract(Head(lines))
         ELSE ScanLines(Tail(lines))

\* lines 134-145: readOk = FALSE is open()/read() raising inside the try
ReadVersion(hdr, readOk) ==
    IF hdr = Absent THEN DefaultVersion
    ELSE IF ~readOk THEN DefaultVersion
    ELSE ScanLines(Split(hdr, "\n"))

OtaBin(version, timestamp) ==
    "ota_packages/t-deck-pro-os_v" \o version \o "_" \o timestamp \o ".bin"
OtaBinName(version, timestamp) ==
    "t-deck-pro-os_v" \o version \o "_" \o timestamp \o ".bin"
OtaManifest_stale(version, timestamp) ==
    "ota_packages/version_v" \o version \o "_" \o Timestamp(0) \o ".json"

OtaManifest(version, timestamp) ==
    "ota_packages/version_v" \o version \o "_" \o timestamp \o ".json"

OtaGuard_and(env_name) == Contains("release", env_name) /\ Contains("ota", env_name)

OtaGuard(env_name) == Contains("release", env_name) \/ Contains("ota", env_name)

create_ota_package ==
    /\ pc = "ota"
    /\ LET o1 == Say(console, "Creating")
       IN  IF EnvUnavailable
           THEN /\ console' = Say(o1, "ota_skip_env")
                /\ pc' = "cleanup"
                /\ UNCHANGED <<dirs, files>>
           ELSE IF ~OtaGuard(EnvName)
           THEN /\ console' = Say(o1, "ota_skip_guard")
                /\ pc' = "cleanup"
                /\ UNCHANGED <<dirs, files>>
           ELSE \E okMk, readOk, okCopy \in BOOLEAN,
                   manifest \in {"ok", "open_fails", "dump_fails"} :
                  /\ okMk \/ "ota_packages" \notin dirs
                  /\ dirs' = IF okMk THEN dirs \cup {"ota_packages"} ELSE dirs
                  /\ IF ~okMk
                     THEN /\ pc' = "crashed"
                          /\ console' = o1
                          /\ UNCHANGED files
                     ELSE IF buildDir.bin = NoFile
                     THEN /\ console' = Say(o1, "ota_err")
                          /\ pc' = "cleanup"
                          /\ UNCHANGED files
                     ELSE LET env_name == EnvName
                              timestamp == Timestamp(clock)
                              version == ReadVersion(header, readOk)
                              ota_package == OtaBin(version, timestamp)
                              version_file == OtaManifest(version, timestamp)
                              version_info ==
                                [kind |-> "manifest",
                                 version |-> version,
                                 timestamp |-> timestamp,
                                 environment |-> env_name,
                                 size |-> buildDir.bin,
                                 filename |-> OtaBinName(version, timestamp),
                                 fresh |-> TRUE]
                              truncated ==
                                [kind |-> "truncated", fresh |-> TRUE]
                              f1 == WriteFile(files, ota_package,
                                              Copy("firmware.bin", buildDir.bin))
                          IN  IF ~okCopy
                              THEN /\ pc' = "crashed"
                                   /\ console' = o1
                                   /\ UNCHANGED files
                              ELSE IF manifest = "open_fails"
                              THEN /\ pc' = "crashed"
                                   /\ console' = o1
                                   /\ files' = f1
                              ELSE IF manifest = "dump_fails"
                              THEN /\ pc' = "crashed"
                                   /\ console' = o1
                                   /\ files' = WriteFile(f1, version_file, truncated)
                              ELSE /\ pc' = "cleanup"
                                   /\ console' = Say(o1, "ota_ok")
                                   /\ files' = WriteFile(f1, version_file, version_info)
    /\ UNCHANGED <<env, buildDir, header, clock, run, header0>>

Unlink_keep(hdr, ok) == hdr

\* build_info_path.unlink(): the header afterwards
Unlink(hdr, ok) == IF ok THEN Absent ELSE hdr

cleanup_build_files ==
    /\ pc = "cleanup"
    /\ LET o1 == Say(console, "Cleaning")
       IN  IF header # Absent
           THEN \E okUnlink \in BOOLEAN :
                  /\ header' = Unlink(header, okUnlink)
                  /\ console' = IF okUnlink THEN Say(o1, "clean_ok")
                                ELSE Say(o1, "clean_warn")
           ELSE /\ header' = header
                /\ console' = o1
    /\ pc' = "banner"
    /\ UNCHANGED <<env, buildDir, clock, dirs, files, run, header0>>

print_build_success ==
    /\ pc = "banner"
    /\ console' = Say(console, "success")
    /\ pc' = "done"
    /\ UNCHANGED <<env, buildDir, header, clock, dirs, files, run, header0>>

(* --------------------------- environment ------------------------------- *)
\* the wall clock advances by a second; it is read by datetime.now() in the
\* artifact collector and in the OTA packager only, so a second passing is
\* taken just ahead of one of these reads
Tick ==
    /\ pc \in {"artifacts", "ota"}
    /\ clock < MaxClock
    /\ clock' = clock + 1
    /\ UNCHANGED <<env, buildDir, header, dirs, files, console, pc, run, header0>>

\* the build tool runs the hook again after the next build; that build may
\* have regenerated the version header it generated before
main ==
    /\ pc \in {"done", "crashed"}
    /\ run < MaxRuns
    /\ run' = run + 1
    /\ header' \in {header, header0}
    /\ header0' = header'
    /\ console' = << >>
    /\ files' = [p \in DOMAIN files |-> [files[p] EXCEPT !.fresh = FALSE]]
    /\ pc' = "summary"
    /\ UNCHANGED <<env, buildDir, clock, dirs>>

Next ==
    \/ print_build_summary
    \/ analyze_firmware_size
    \/ generate_build_artifacts
    \/ create_ota_package
    \/ cleanup_build_files
    \/ print_build_success
    \/ Tick
    \/ main

Spec == Init /\ [][Next]_vars

(* ------------------------- observation helpers ------------------------- *)
HasTag(out, tag) == \E i \in DOMAIN out : out[i].tag = tag
Printed(tag) == HasTag(console, tag)
RunEnded == pc \in {"done", "crashed"}

InDir(d, p) == Len(p) > Len(d) /\ SubSeq(p, 1, Len(d) + 1) = d \o "/"
EndsWith(p, ext) == Len(p) >= Len(ext) /\ SubSeq(p, Len(p) - Len(ext) + 1, Len(p)) = ext
StartsWith(p, pre) == Len(p) >= Len(pre) /\ SubSeq(p, 1, Len(pre)) = pre
\* the 15 characters in front of the extension
TsOf(p, ext) == SubSeq(p, Len(p) - Len(ext) - 14, Len(p) - Len(ext))

OtaPaths(fs) == {p \in DOMAIN fs : InDir("ota_packages", p)}
\* what the current invocation has written under ota_packages
OtaBinsOfRun ==
    {p \in DOMAIN files :
       files[p].fresh /\ files[p].kind = "copy" /\ InDir("ota_packages", p)}
OtaManifestsOfRun ==
    {p \in DOMAIN files :
       files[p].fresh /\ files[p].kind # "copy" /\ InDir("ota_packages", p)}

(* -------------------------------- C1 ----------------------------------- *)
\* C1: no exception propagates out of main: whatever the environment, the
\* input files and the outcome of each file-system operation, an invocation
\* never ends in an escaped exception (and so goes on to the success banner).
C1_NoExceptionEscapesMain == pc # "crashed"

(* -------------------------------- C2 ----------------------------------- *)
\* C2 (as stated): with an environment name containing "release", once
\* create_ota_package has run (and returned) the invocation has written
\* exactly one binary copy and exactly one manifest under ota_packages, and
\* the timestamps of the two filenames and of the manifest's timestamp field
\* are equal.
C2_Original ==
    (env.avail /\ Contains("release", EnvName) /\ Printed("Creating")
       /\ pc \in {"cleanup", "banner", "done"})
    => /\ Cardinality(OtaBinsOfRun) = 1
       /\ Cardinality(OtaManifestsOfRun) = 1
       /\ \A b \in OtaBinsOfRun : \A m \in OtaManifestsOfRun :
            /\ files[m].kind = "manifest"
            /\ TsOf(b, ".bin") = TsOf(m, ".json")
            /\ files[m].timestamp = TsOf(m, ".json")

\* C2 (amended): with an environment name containing "release" the guard of
\* create_ota_package is passed; an invocation that finds firmware.bin and
\* returns normally has written exactly one binary copy and exactly one
\* manifest; one that finds firmware.bin missing has written neither; in
\* every case at most one of each is written, a manifest only next to its
\* binary copy, and the timestamps of the two filenames and of a completely
\* written manifest's timestamp field are equal.
C2_ReleasePackage ==
    (env.avail /\ Contains("release", EnvName) /\ Printed("Creating") /\ pc # "ota")
    => /\ ~Printed("ota_skip_guard") /\ ~Printed("ota_skip_env")
       /\ Cardinality(OtaBinsOfRun) <= 1
       /\ Cardinality(OtaManifestsOfRun) <= 1
       /\ (buildDir.bin = NoFile
             => OtaBinsOfRun = {} /\ OtaManifestsOfRun = {})
       /\ ((buildDir.bin # NoFile /\ pc # "crashed")
             => /\ Cardinality(OtaBinsOfRun) = 1
                /\ Cardinality(OtaManifestsOfRun) = 1
                /\ \A m \in OtaManifestsOfRun : files[m].kind = "manifest")
       /\ (OtaManifestsOfRun # {} => OtaBinsOfRun # {})
       /\ \A b \in OtaBinsOfRun : \A m \in OtaManifestsOfRun :
            /\ TsOf(b, ".bin") = TsOf(m, ".json")
            /\ files[m].kind = "manifest"
                 => files[m].timestamp = TsOf(m, ".json")

C2_Witness ==
    /\ env.avail /\ Contains("release", EnvName)
    /\ Printed("ota_ok")
    /\ clock = 1
    /\ Cardinality(OtaBinsOfRun) = 1 /\ Cardinality(OtaManifestsOfRun) = 1

(* -------------------------------- C3 ----------------------------------- *)
Untimestamped(p) == EndsWith(p, ".elf") \/ EndsWith(p, ".map")

\* the timestamp in the name of a timestamped output file
TsOfPath(p) == IF EndsWith(p, ".json") THEN TsOf(p, ".json") ELSE TsOf(p, ".bin")
\* the current second is not the second of any earlier run's timestamped file
LaterSecond ==
    \A q \in DOMAIN files :
       (~files[q].fresh /\ ~Untimestamped(q)) => TsOfPath(q) # Timestamp(clock)

\* C3 (as stated): with firmware.bin present, no file that an earlier run
\* wrote under build_artifacts or ota_packages is overwritten by the next
\* run, the two runs taking their timestamps in different clock seconds (and
\* the step of the next run not ending in an exception).
C3_Original ==
    [][(buildDir.bin # NoFile /\ LaterSecond /\ pc' # "crashed")
         => \A p \in DOMAIN files : ~files[p].fresh => ~files'[p].fresh]_vars

\* C3 (amended): no file is ever removed from the two output directories,
\* and a timestamped file (build_artifacts/*.bin, ota_packages/*.bin,
\* ota_packages/*.json) written by one run is overwritten by a later run only
\* when that run writes it within the same clock second; the untimestamped
\* .elf and .map copies carry no such protection.
C3_TimestampedKept ==
    [][\A p \in DOMAIN files :
         /\ p \in DOMAIN files'
         /\ (~files[p].fresh /\ files'[p].fresh /\ ~Untimestamped(p))
              => TsOfPath(p) = Timestamp(clock)]_vars

\* two artifact sets of two runs side by side, taken in different seconds
C3_Witness ==
    /\ run = 2 /\ pc = "done" /\ buildDir.bin # NoFile
    /\ \E p, q \in DOMAIN files :
         /\ p # q
         /\ InDir("build_artifacts", p) /\ InDir("build_artifacts", q)
         /\ EndsWith(p, ".bin") /\ EndsWith(q, ".bin")
         /\ ~files[p].fresh /\ files[q].fresh
    /\ \E p, q \in OtaPaths(files) :
         /\ files[p].kind = "manifest" /\ files[q].kind = "manifest"
         /\ ~files[p].fresh /\ files[q].fresh

(* -------------------------------- C4 ----------------------------------- *)
\* C4: when create_ota_package runs with an environment name containing
\* neither "release" nor "ota", nothing under ota_packages is created or
\* changed (nor the directory itself) and the skip notice is printed;
\* with a name containing either substring the guard is passed: no skip
\* notice, and the step goes on to create the ota_packages directory.
C4_OtaGuard ==
    [][(pc = "ota" /\ pc' # "ota" /\ env.avail)
         => IF ~Contains("release", EnvName) /\ ~Contains("ota", EnvName)
            THEN /\ OtaPaths(files') = OtaPaths(files)
                 /\ \A p \in OtaPaths(files) : files'[p] = files[p]
                 /\ dirs' = dirs
                 /\ HasTag(console', "ota_skip_guard")
                 /\ pc' = "cleanup"
            ELSE /\ ~HasTag(console', "ota_skip_guard")
                 /\ "ota_packages" \in dirs' \/ pc' = "crashed"]_vars

C4_Witness ==
    /\ env.avail /\ EnvName = "unknown" /\ buildDir.bin # NoFile
    /\ pc = "done" /\ Printed("ota_skip_guard")
    /\ OtaPaths(files) = {} /\ DOMAIN files # {}

(* -------------------------------- C5 ----------------------------------- *)
\* C5: with firmware.bin missing and a release/ota environment name, the
\* invocation ends with no file written under ota_packages and the packager's
\* error printed, with firmware.elf and firmware.map copied whenever each
\* exists, and with cleanup and the success banner run.
C5_MissingBinary ==
    (env.avail /\ (Contains("release", EnvName) \/ Contains("ota", EnvName))
       /\ buildDir.bin = NoFile /\ RunEnded)
    => /\ OtaBinsOfRun = {} /\ OtaManifestsOfRun = {}
       /\ Printed("ota_err")
       /\ buildDir.elf => /\ ArtifactElf(EnvName) \in DOMAIN files
                          /\ files[ArtifactElf(EnvName)].fresh
       /\ buildDir.map => /\ ArtifactMap(EnvName) \in DOMAIN files
                          /\ files[ArtifactMap(EnvName)].fresh
       /\ Printed("Cleaning") /\ Printed("success")

(* -------------------------------- C6 ----------------------------------- *)
Tags(out) == [i \in DOMAIN out |-> out[i].tag]
Step ==
    \/ print_build_summary \/ analyze_firmware_size \/ generate_build_artifacts
    \/ create_ota_package \/ cleanup_build_files \/ print_build_success

\* C6: with the environment unavailable the three environment-dependent
\* steps are skipped: no directory and no file is created under
\* build_artifacts or ota_packages, no exception ends the run, the run can
\* always take its next step, and a finished run has printed the three skip
\* notices, the cleanup line and the success banner.
C6_EnvUnavailable ==
    ~env.avail
    => /\ dirs = {} /\ DOMAIN files = {}
       /\ pc # "crashed"
       /\ pc # "done" => ENABLED Step
       /\ ~Printed("size") /\ ~Printed("bin_missing") /\ ~Printed("summary_env")
       /\ pc = "done"
            => /\ Printed("size_skip") /\ Printed("art_skip")
               /\ Printed("ota_skip_env")
               /\ Printed("Cleaning")
               /\ console[Len(console)].tag = "success"

C6_Witness ==
    /\ ~env.avail /\ pc = "done" /\ run = 2
    /\ header0 # Absent /\ header = Absent

(* -------------------------------- C7 ----------------------------------- *)
RemainingFigures ==
    {console[i].val : i \in {j \in DOMAIN console : console[j].tag = "remaining"}}
SizeAnalysed == env.avail /\ buildDir.bin # NoFile /\ Printed("Analyzing") /\ pc # "size"

\* C7 (as stated): for a binary of size S and T = 6 MiB the analyzer prints
\* a remaining-space figure iff S <= T, the figure printed is exactly T - S,
\* and the overflow warning is printed iff S > T.
C7_Original ==
    SizeAnalysed
    => /\ Printed("remaining") <=> buildDir.bin <= 6 * 1024 * 1024
       /\ Printed("size_warn") <=> buildDir.bin > 6 * 1024 * 1024
       /\ \A v \in RemainingFigures :
            v * 1024 * 1024 = (6 * 1024 * 1024 - buildDir.bin) * 100

\* C7 (amended): the analyzer prints a remaining-space figure iff S <= T and
\* the overflow warning iff S > T; the figure printed is T - S converted to
\* MiB and rounded to two decimals, so it is within 0.005 MiB of T - S (not
\* T - S itself), non-negative, and 0.00 at the boundary S = T.
C7_Remaining ==
    SizeAnalysed
    => /\ Printed("remaining") <=> buildDir.bin <= 6 * 1024 * 1024
       /\ Printed("size_warn") <=> buildDir.bin > 6 * 1024 * 1024
       /\ Cardinality(RemainingFigures) <= 1
       /\ \A v \in RemainingFigures :
            LET exact == (6 * 1024 * 1024 - buildDir.bin) * 100
                shown == v * 1024 * 1024
            IN  /\ v >= 0
                /\ 2 * (shown - exact) <= 1024 * 1024
                /\ 2 * (exact - shown) <= 1024 * 1024
                /\ buildDir.bin = 6 * 1024 * 1024 => v = 0

C7_Witness ==
    /\ SizeAnalysed /\ buildDir.bin = 6 * 1024 * 1024
    /\ RemainingFigures = {0} /\ ~Printed("size_warn")

(* -------------------------------- C8 ----------------------------------- *)
\* the lines of the header holding both the marker and a double quote
MarkedLines(hdr) ==
    LET lines == Split(hdr, "\n")
    IN  {i \in DOMAIN lines : /\ Contains("BUILD_VERSION", lines[i])
                              /\ Positions("\"", lines[i]) # {}}
FirstMarkedLine(hdr) == Split(hdr, "\n")[Min(MarkedLines(hdr))]
\* the text between the first and the second double quote of a line
BetweenQuotes(line) ==
    LET q1 == Min(Positions("\"", line))
        q2 == Min(Positions("\"", line) \ {q1})
    IN  SubSeq(line, q1 + 1, q2 - 1)
\* the text from the first double quote to the next one or the line's end
AfterFirstQuote(line) ==
    LET q1 == Min(Positions("\"", line))
        rest == Positions("\"", line) \ {q1}
    IN  SubSeq(line, q1 + 1, IF rest = {} THEN Len(line) ELSE Min(rest) - 1)

ManifestsOfRun == {p \in OtaManifestsOfRun : files[p].kind = "manifest"}
SameVersionInNames(m) ==
    /\ StartsWith(m, "ota_packages/version_v" \o files[m].version \o "_")
    /\ StartsWith(files[m].filename, "t-deck-pro-os_v" \o files[m].version \o "_")
    /\ ("ota_packages/" \o files[m].filename) \in OtaBinsOfRun

\* C8 (as stated): a manifest's version is "1.0.0" if the header is absent
\* or has no line with both the marker and a double quote; otherwise it is
\* the text between the first and the second double quote of the first such
\* line; both filenames carry that version.
C8_Original ==
    \A m \in ManifestsOfRun :
      /\ SameVersionInNames(m)
      /\ IF header0 = Absent THEN files[m].version = "1.0.0"
         ELSE IF MarkedLines(header0) = {} THEN files[m].version = "1.0.0"
         ELSE LET line == FirstMarkedLine(header0)
              IN  /\ Cardinality(Positions("\"", line)) >= 2
                  /\ files[m].version = BetweenQuotes(line)

\* C8 (amended): a manifest's version is "1.0.0" if the header is absent or
\* has no line with both the marker and a double quote, and also when the
\* header cannot be read (the exception is swallowed); otherwise it is the
\* text after the first double quote of the first such line up to the next
\* double quote or, when the line has no second one, to the end of the
\* line; both filenames carry that version.
C8_Version ==
    \A m \in ManifestsOfRun :
      /\ SameVersionInNames(m)
      /\ IF header0 = Absent THEN files[m].version = "1.0.0"
         ELSE IF MarkedLines(header0) = {} THEN files[m].version = "1.0.0"
         ELSE \/ files[m].version = "1.0.0"
              \/ files[m].version = AfterFirstQuote(FirstMarkedLine(header0))

C8_Witness ==
    /\ header0 # Absent /\ MarkedLines(header0) # {}
    /\ Min(MarkedLines(header0)) = 2
    /\ \E m \in ManifestsOfRun : files[m].version = "3.0"

(* -------------------------------- C9 ----------------------------------- *)
StepTags == {"summary", "Analyzing", "Generating", "Creating", "Cleaning", "success"}
IsStepTag(t) == t \in StepTags

\* C9: an invocation of main that has ended has run each of the six steps
\* exactly once, in the order summary, size analysis, artifact collection,
\* OTA packaging, cleanup, success banner.
C9_SixStepsInOrder ==
    RunEnded
    => SelectSeq(Tags(console), IsStepTag)
         = <<"summary", "Analyzing", "Generating", "Creating", "Cleaning", "success">>

(* -------------------------------- C10 ---------------------------------- *)
\* C10: an invocation that completes leaves no version header unless its
\* deletion failed, in which case the warning was printed and the success
\* banner still followed; cleanup never raises; and no step of the script
\* changes firmware.bin, firmware.elf or firmware.map, deletes an output
\* file, or changes the header other than cleanup deleting it.
C10_HeaderDeleted ==
    [][/\ pc' = "done"
            => /\ header' = Absent \/ HasTag(console', "clean_warn")
               /\ HasTag(console', "clean_warn") => header' = header0'
               /\ console'[Len(console')].tag = "success"
       /\ pc = "cleanup" => pc' \in {"cleanup", "banner"}
       /\ ~RunEnded
            => /\ buildDir' = buildDir
               /\ DOMAIN files \subseteq DOMAIN files'
               /\ header' # header => pc = "cleanup" /\ header' = Absent]_vars

C10_Witness ==
    /\ pc = "done" /\ header0 # Absent /\ header = Absent
    /\ env.avail /\ buildDir.bin = NoFile /\ Printed("clean_ok")

====
